---------------------------- MODULE Spec2Model ----------------------------
(***************************************************************************)
(* Model of the dpctl tensor kernels:                                      *)
(*   - multiply.hpp: the matrix-by-row broadcast launcher                  *)
(*     (multiply_contig_matrix_contig_row_broadcast_impl), the generic     *)
(*     strided launcher, and the queue that runs what they submit;         *)
(*   - the boolean reductions (all / any): the sequential kernel and the   *)
(*     two-phase kernels with the work-group leaders' compare-and-swap.    *)
(* The SYCL queue is modelled as a set of events, each with the events it  *)
(* depends on; an event may start once every dependency is complete.       *)
(***************************************************************************)
EXTENDS Integers, Sequences, FiniteSets, TLC

VARIABLES
    pc,           \* position of the host thread inside the launcher
    depends,      \* the caller's depends vector (a set of event ids)
    evStatus,     \* event id -> "none" | "submitted" | "running" | "complete"
    evDeps,       \* event id -> the events named in its cgh.depends_on calls
    sg_sizes,     \* the device's sub_group_sizes
    \* ---- matrix-by-row broadcast launcher
    n0, n1,       \* the matrix shape
    mat, vec,     \* input buffers (index -> value)
    res,          \* output buffer (index -> value)
    padded_vec,   \* the scratch allocation (index -> value)
    scratch,      \* "none" | "allocated" | "freed" | "null"
    allocCount,   \* number of sycl::malloc_device calls that returned memory
    freeCount,    \* number of sycl::free calls on the scratch buffer
    host_tasks,   \* the caller-supplied vector of host task events
    sgUsed,       \* the sub-group size the compute kernel ran with (0 before)
    fault,        \* memory faults seen so far (a set of strings)
    ret,          \* the event returned by the launcher (NoEvent before return)
    \* ---- boolean reduction
    red,          \* the arguments of the boolean reduction call (a record)
    data,         \* the caller's logical array: data[i][m], row i, element m
    inp,          \* the input buffer (address -> value)
    out,          \* the output buffer (address -> value)
    wgs,          \* work-group <<i, b>> -> its leader's position and registers
    outWrites,    \* output address -> the work-items that have stored to it
    outReads,     \* output address -> the work-items that have loaded from it
    \* ---- multiply type dispatch
    T1, T2,       \* the pair of element types a factory is instantiated with
    value_types,  \* the results of the type-promotion lookups made so far
    fns,          \* factory name -> the function pointer its get() returned
    \* ---- contiguous and strided multiply launchers
    mul,          \* the arguments of the multiply call (a record)
    additional_depends,  \* the strided launcher's second vector of events
    \* ---- Flags (dpctl/tensor/_flags.pyx)
    arr_,         \* the array the Flags object was built for
    flags_,       \* the bitmask the Flags object was built with
    call,         \* the last attribute or item looked up on the object
    result        \* the value that lookup returned

bcastVars == <<n0, n1, mat, vec, res, padded_vec, scratch, allocCount,
               freeCount, host_tasks, sgUsed, fault>>
queueVars == <<pc, depends, evStatus, evDeps, sg_sizes, ret>>
redVars == <<red, data, inp, out, wgs, outWrites, outReads>>
typeVars == <<T1, T2, value_types, fns>>
mulVars == <<mul, additional_depends>>
flagVars == <<arr_, flags_, call, result>>
vars == <<queueVars, bcastVars, redVars, typeVars, mulVars, flagVars>>

(***************************************************************************)
(* Bounds of the model.                                                    *)
(***************************************************************************)
MaxN0 == 2
MaxN1 == 3
MaxSgLog == 1
MaxDeps == 2
MaxIter == 2
MaxRed == 17
FullRowLen == 4
MaxRedSgLog == 0
MaxWorkGroups == 4
LongRed == 33

(***************************************************************************)
(* Program constants.                                                      *)
(***************************************************************************)
lws == 64
Uninit == -1
NoEvent == -2

RECURSIVE Pow2(_)
Pow2(k) == IF k = 0 THEN 1 ELSE 2 * Pow2(k - 1)

SetMax(S) == CHOOSE x \in S : \A y \in S : y <= x

\* Devices: the sub-group sizes are the powers of two up to the device maximum.
Devices == { { Pow2(k) : k \in 0..m } : m \in 0..MaxSgLog }

\* std::max_element over sub_group_sizes
max_sgSize == SetMax(sg_sizes)

(***************************************************************************)
(* Events.  The caller's handles are 1..MaxDeps; the launchers' own events *)
(* follow.                                                                 *)
(***************************************************************************)
DepIds == 1..MaxDeps
prior_host_task == 0
make_padded_vec_ev == MaxDeps + 1
comp_ev == MaxDeps + 2
tmp_cleanup_ev == MaxDeps + 3
init_ev == MaxDeps + 4
red_ev == MaxDeps + 5
EventIds == 0..(MaxDeps + 5)

Started(e) == evStatus[e] \in {"running", "complete"}
Complete(e) == evStatus[e] = "complete"
\* The queue may start a submitted command group once all its dependencies
\* have completed.
Runnable(e) == /\ evStatus[e] = "submitted"
               /\ \A d \in evDeps[e] : Complete(d)

(***************************************************************************)
(* Element arithmetic: the model instantiates argT1 = argT2 = resT =       *)
(* std::uint8_t, so in1 * in2 is reduced modulo 2^8 on the store to resT.  *)
(***************************************************************************)
MultiplyFunctor(in1, in2) == (in1 * in2) % 256

(***************************************************************************)
(* Input data.  A matrix is mat[k] = (a*k + b) mod 256 and a row is        *)
(* vec[j] = (c*j + d) mod 256 for a seed <<a, b, c, d>>; the first seed is *)
(* [[1,2,3],[4,5,6]] and [10,20,30] on shape (2,3).                        *)
(***************************************************************************)
InputSeeds == { <<1, 1, 10, 10>>, <<16, 3, 16, 16>>, <<0, 7, 3, 0>> }
MatOf(s, n) == [k \in 0..(n - 1) |-> (s[1] * k + s[2]) % 256]
VecOf(s, n) == [j \in 0..(n - 1) |-> (s[3] * j + s[4]) % 256]

(***************************************************************************)
(* multiply_contig_matrix_contig_row_broadcast_impl                        *)
(***************************************************************************)
\* (mutation: the scratch buffer is allocated without the padding)
n1_padded_NoPadding == n1
n1_padded == n1 + max_sgSize

\* cgh.depends_on of the three command groups
FillDependsOn == depends
\* (mutation: the compute kernel waits for the caller's handles, not the fill)
CompDependsOn_Caller == depends
CompDependsOn == {make_padded_vec_ev}
\* (mutation: the host task waits for the fill kernel, not the compute kernel)
CleanupDependsOn_Fill == {make_padded_vec_ev}
CleanupDependsOn == {comp_ev}

\* the event the launcher returns
\* (mutation: the launcher returns the host task's event)
ReturnedEvent_Cleanup == tmp_cleanup_ev
ReturnedEvent == comp_ev

\* padded_vec[i] = vec[i % n1]
\* (mutation: the index is clamped to the last element instead of wrapping)
FillIndex_Clamp(i) == IF i < n1 THEN i ELSE n1 - 1
FillIndex(i) == i % n1
FillKernel == [i \in 0..(n1_padded - 1) |-> vec[FillIndex(i)]]

\* The values a division by zero may leave in a slot (i % n1 with n1 = 0).
ArbitraryVals == {0, 255}

n_elems == n0 * n1
n_groups == (n_elems + lws - 1) \div lws
gws == n_groups * lws

(***************************************************************************)
(* BinaryContigMatrixContigRowBroadcastingFunctor: work-item gid belongs   *)
(* to the sub-group starting at base = gid - lane.  A full sub-group loads *)
(* sgSize consecutive elements of mat at base and of padded_vec at         *)
(* base % n1; the last sub-groups fall back to element-wise indexing.      *)
(***************************************************************************)
SgBase(gid, sgSize) == gid - (gid % sgSize)
WideLoad(gid, sgSize) == SgBase(gid, sgSize) + sgSize < n_elems
PaddedIndex(gid, sgSize) ==
    IF WideLoad(gid, sgSize)
    THEN (SgBase(gid, sgSize) % n1) + (gid % sgSize)
    ELSE gid % n1
\* The work-items of the launch that touch memory.
ActiveItems == { gid \in 0..(gws - 1) : gid < n_elems }
PaddedRead(gid, sgSize) ==
    IF PaddedIndex(gid, sgSize) \in DOMAIN padded_vec
    THEN padded_vec[PaddedIndex(gid, sgSize)]
    ELSE Uninit
BroadcastKernel(sgSize) ==
    [k \in 0..(n_elems - 1) |->
        IF k \in ActiveItems
        THEN MultiplyFunctor(mat[k], PaddedRead(k, sgSize))
        ELSE res[k]]
CompFaults(sgSize) ==
    (IF \E k \in ActiveItems : PaddedIndex(k, sgSize) \notin DOMAIN padded_vec
     THEN {"out_of_bounds"} ELSE {})
    \cup
    (IF \E k \in ActiveItems : PaddedRead(k, sgSize) = Uninit
     THEN {"unfilled_read"} ELSE {})
    \cup
    (IF scratch # "allocated" /\ ActiveItems # {}
     THEN {"use_after_free"} ELSE {})

(***************************************************************************)
(* multiply_strided_impl with a ThreeOffsets_StridedIndexer over the shape *)
(* (n0, n1): the packed array is shape, then the strides of arg1, arg2 and *)
(* res.  The row operand is broadcast with stride 0 along axis 0.          *)
(***************************************************************************)
BroadcastShapeAndStrides == <<n0, n1,  n1, 1,  0, 1,  n1, 1>>

\* CIndexer_vector::get_displacement: unravel the linear id i over the shape
\* stored at sas[shape_at + 1 ..] in C order and take the dot product with
\* the strides stored at sas[strides_at + 1 ..]; d is the axis being peeled.
RECURSIVE Displacement(_, _, _, _, _)
Displacement(sas, shape_at, strides_at, d, i) ==
    IF d = 1
    THEN i * sas[strides_at + 1]
    ELSE (i % sas[shape_at + d]) * sas[strides_at + d]
         + Displacement(sas, shape_at, strides_at, d - 1, i \div sas[shape_at + d])

\* StridedIndexer{nd, offset, shape_strides}: strides follow the shape
StridedIndexer(nd, offset, sas, gid) ==
    offset + Displacement(sas, 0, nd, nd, gid)
\* TwoOffsets_StridedIndexer{nd, offset1, offset2, shape_strides}
TwoOffsets_First(nd, offset1, sas, gid) ==
    offset1 + Displacement(sas, 0, nd, nd, gid)
TwoOffsets_Second(nd, offset2, sas, gid) ==
    offset2 + Displacement(sas, 0, 2 * nd, nd, gid)
\* ThreeOffsets_StridedIndexer{nd, offset1, offset2, offset3, shape_strides}
ThreeOffsets_Third(nd, offset3, sas, gid) ==
    offset3 + Displacement(sas, 0, 3 * nd, nd, gid)
\* UnpackedStridedIndexer(nd, offset, shape, strides): shape and strides are
\* pointers into a packed array, given here as positions in it
UnpackedStridedIndexer(nd, offset, sas, shape_at, strides_at, gid) ==
    offset + Displacement(sas, shape_at, strides_at, nd, gid)
\* Strided1DIndexer{offset, size, step}
Strided1DIndexer(offset, size, step, gid) ==
    offset + (IF gid < size - 1 THEN gid ELSE size - 1) * step
\* NoOpIndexer
NoOpIndexer(gid) == gid

\* The strided kernel: one work-item per logical element, res written at the
\* third offset.
StridedKernel(arg1, arg2, nelems, nd, sas) ==
    [a \in 0..(nelems - 1) |->
        LET k == CHOOSE g \in 0..(nelems - 1) :
                     ThreeOffsets_Third(nd, 0, sas, g) = a
        IN  MultiplyFunctor(arg1[TwoOffsets_First(nd, 0, sas, k)],
                            arg2[TwoOffsets_Second(nd, 0, sas, k)])]

(***************************************************************************)
(* The host thread inside multiply_contig_matrix_contig_row_broadcast_impl *)
(***************************************************************************)
\* if (padded_vec == nullptr) throw
\* (mutation: the null check is missing)
ThrowOnNull_Never(p) == FALSE
ThrowOnNull(p) == p = "null"

\* sycl::malloc_device: returns memory or nullptr
Alloc ==
    /\ pc = "alloc"
    /\ \E p \in {"allocated", "null"} :
          /\ scratch' = p
          /\ allocCount' = IF p = "allocated" THEN allocCount + 1 ELSE allocCount
          /\ padded_vec' = IF p = "allocated"
                           THEN [i \in 0..(n1_padded - 1) |-> Uninit]
                           ELSE padded_vec
          /\ pc' = IF ThrowOnNull(p) THEN "thrown" ELSE "submit_fill"
    /\ UNCHANGED <<flagVars, typeVars, mulVars, depends, evStatus, evDeps, sg_sizes, ret, n0, n1, mat, vec,
                   res, freeCount, host_tasks, sgUsed, fault, redVars>>

Submit(e, deps) ==
    /\ evStatus' = [evStatus EXCEPT ![e] = "submitted"]
    /\ evDeps' = [evDeps EXCEPT ![e] = deps]

SubmitFill ==
    /\ pc = "submit_fill"
    /\ Submit(make_padded_vec_ev, FillDependsOn)
    /\ pc' = "submit_comp"
    /\ UNCHANGED <<flagVars, typeVars, mulVars, depends, sg_sizes, ret, bcastVars, redVars>>

SubmitComp ==
    /\ pc = "submit_comp"
    /\ Submit(comp_ev, CompDependsOn)
    /\ pc' = "submit_cleanup"
    /\ UNCHANGED <<flagVars, typeVars, mulVars, depends, sg_sizes, ret, bcastVars, redVars>>

SubmitCleanup ==
    /\ pc = "submit_cleanup"
    /\ Submit(tmp_cleanup_ev, CleanupDependsOn)
    /\ pc' = "push_back"
    /\ UNCHANGED <<flagVars, typeVars, mulVars, depends, sg_sizes, ret, bcastVars, redVars>>

\* host_tasks.push_back(tmp_cleanup_ev)
PushBack ==
    /\ pc = "push_back"
    /\ host_tasks' = Append(host_tasks, tmp_cleanup_ev)
    /\ pc' = "return"
    /\ UNCHANGED <<flagVars, typeVars, mulVars, depends, evStatus, evDeps, sg_sizes, ret, n0, n1, mat, vec,
                   res, padded_vec, scratch, allocCount, freeCount, sgUsed,
                   fault, redVars>>

BcastReturn ==
    /\ pc = "return"
    /\ ret' = ReturnedEvent
    /\ pc' = "returned"
    /\ UNCHANGED <<flagVars, typeVars, mulVars, depends, evStatus, evDeps, sg_sizes, bcastVars, redVars>>

(***************************************************************************)
(* The queue                                                               *)
(***************************************************************************)
\* One of the caller's handles completes.
CompleteDep ==
    /\ \E d \in depends \cup additional_depends :
          /\ evStatus[d] = "submitted"
          /\ evStatus' = [evStatus EXCEPT ![d] = "complete"]
    /\ UNCHANGED <<flagVars, typeVars, mulVars, pc, depends, evDeps, sg_sizes, ret, bcastVars, redVars>>

\* The scheduler starts a command group whose dependencies are complete.
Start ==
    /\ \E e \in EventIds \ (depends \cup additional_depends) :
          /\ Runnable(e)
          /\ evStatus' = [evStatus EXCEPT ![e] = "running"]
    /\ UNCHANGED <<flagVars, typeVars, mulVars, pc, depends, evDeps, sg_sizes, ret, bcastVars, redVars>>

Finish(e) ==
    /\ evStatus[e] = "running"
    /\ evStatus' = [evStatus EXCEPT ![e] = "complete"]

\* The fill kernel: n1_padded work-items, padded_vec[i] = vec[i % n1].  With
\* n1 = 0 every work-item divides by zero and leaves an arbitrary value.
FinishFill ==
    /\ Finish(make_padded_vec_ev)
    /\ IF n1 = 0
       THEN /\ padded_vec' \in [DOMAIN padded_vec -> ArbitraryVals]
            /\ fault' = fault \cup {"div_by_zero"}
       ELSE /\ padded_vec' = [i \in DOMAIN padded_vec |->
                                 IF i < n1_padded THEN FillKernel[i]
                                 ELSE padded_vec[i]]
            /\ fault' = fault \cup
                 (IF \E i \in 0..(n1_padded - 1) : i \notin DOMAIN padded_vec
                  THEN {"out_of_bounds"} ELSE {})
    /\ UNCHANGED <<flagVars, typeVars, mulVars, pc, depends, evDeps, sg_sizes, ret, n0, n1, mat, vec, res,
                   scratch, allocCount, freeCount, host_tasks, sgUsed, redVars>>

\* The compute kernel, run with one of the device's sub-group sizes.
FinishComp ==
    /\ mul.variant = "none"
    /\ Finish(comp_ev)
    /\ \E sgSize \in sg_sizes :
          /\ sgUsed' = sgSize
          /\ res' = BroadcastKernel(sgSize)
          /\ fault' = fault \cup CompFaults(sgSize)
    /\ UNCHANGED <<flagVars, typeVars, mulVars, pc, depends, evDeps, sg_sizes, ret, n0, n1, mat, vec,
                   padded_vec, scratch, allocCount, freeCount, host_tasks,
                   redVars>>

\* The host task: sycl::free(padded_vec, ctx)
FinishCleanup ==
    /\ Finish(tmp_cleanup_ev)
    /\ scratch' = "freed"
    /\ freeCount' = freeCount + 1
    /\ fault' = fault \cup (IF scratch # "allocated" THEN {"bad_free"} ELSE {})
    /\ UNCHANGED <<flagVars, typeVars, mulVars, pc, depends, evDeps, sg_sizes, ret, n0, n1, mat, vec, res,
                   padded_vec, allocCount, host_tasks, sgUsed, redVars>>

(***************************************************************************)
(* Specification of the matrix-by-row broadcast launcher                   *)
(***************************************************************************)
\* No factory is being instantiated and no other launcher is called.
TypeIdle ==
    /\ T1 = "none" /\ T2 = "none"
    /\ value_types = <<>>
    /\ fns = <<>>

MulIdle ==
    /\ mul = [variant |-> "none"]
    /\ additional_depends = {}

\* No Flags object has been constructed.
FlagIdle ==
    /\ arr_ = "none"
    /\ flags_ = 0
    /\ call = <<>>
    /\ result = [kind |-> "none"]

RedIdle ==
    /\ red = [op |-> "none", variant |-> "none", iter_nelems |-> 0,
              reduction_nelems |-> 0]
    /\ data = <<>>
    /\ inp = <<>>
    /\ out = <<>>
    /\ wgs = <<>>
    /\ outWrites = <<>>
    /\ outReads = <<>>

BcastInit ==
    /\ pc = "alloc"
    /\ depends \in SUBSET DepIds
    /\ evStatus = [e \in EventIds |->
                      IF e \in depends THEN "submitted"
                      ELSE IF e = prior_host_task THEN "complete" ELSE "none"]
    /\ evDeps = [e \in EventIds |-> {}]
    /\ sg_sizes \in Devices
    /\ ret = NoEvent
    /\ n0 \in 0..MaxN0
    /\ n1 \in 0..MaxN1
    /\ \E s \in InputSeeds :
          /\ mat = MatOf(s, n0 * n1)
          /\ vec = VecOf(s, n1)
    /\ res = [k \in 0..(n0 * n1 - 1) |-> Uninit]
    /\ padded_vec = <<>>
    /\ scratch = "none"
    /\ allocCount = 0
    /\ freeCount = 0
    /\ host_tasks \in {<<>>, <<prior_host_task>>}
    /\ sgUsed = 0
    /\ fault = {}
    /\ RedIdle
    /\ TypeIdle
    /\ FlagIdle
    /\ MulIdle

BcastNext ==
    \/ Alloc
    \/ SubmitFill
    \/ SubmitComp
    \/ SubmitCleanup
    \/ PushBack
    \/ BcastReturn
    \/ CompleteDep
    \/ Start
    \/ FinishFill
    \/ FinishComp
    \/ FinishCleanup

BcastSpec == BcastInit /\ [][BcastNext]_vars

(***************************************************************************)
(* Properties of the matrix-by-row broadcast launcher (under BcastSpec)    *)
(***************************************************************************)

\* C1: the host task that frees padded_vec has not started, and the scratch
\* buffer is not freed, unless the compute kernel (comp_ev) has completed;
\* and then the fill kernel has completed as well.
C1_FreeAfterCompute ==
    (Started(tmp_cleanup_ev) \/ scratch = "freed" \/ freeCount > 0)
        => (Complete(comp_ev) /\ Complete(make_padded_vec_ev))
C1_Witness ==
    /\ scratch = "freed"
    /\ Complete(tmp_cleanup_ev)
    /\ Complete(comp_ev)
    /\ n0 * n1 > 0
    /\ depends # {}

\* The (2,3) scenario of the specification.
ExampleMat == [k \in 0..5 |-> <<1, 2, 3, 4, 5, 6>>[k + 1]]
ExampleVec == [j \in 0..2 |-> <<10, 20, 30>>[j + 1]]
ExampleRes == [k \in 0..5 |-> <<10, 40, 90, 40, 100, 180>>[k + 1]]

\* C4: for n1 >= 1, once the compute kernel has completed, res[i,j] is
\* mat[i,j] * vec[j] (in the result type) for all i < n0, j < n1, res equals
\* the output of the generic strided kernel on the same operands (the row
\* broadcast with stride 0), and [[1,2,3],[4,5,6]] times [10,20,30] gives
\* [[10,40,90],[40,100,180]].
C4_BroadcastProduct ==
    (n1 >= 1 /\ Complete(comp_ev)) =>
        /\ \A i \in 0..(n0 - 1) : \A j \in 0..(n1 - 1) :
              res[i * n1 + j] = (mat[i * n1 + j] * vec[j]) % 256
        /\ res = StridedKernel(mat, vec, n0 * n1, 2, BroadcastShapeAndStrides)
        /\ (n0 = 2 /\ n1 = 3 /\ mat = ExampleMat /\ vec = ExampleVec)
              => res = ExampleRes
C4_Witness ==
    /\ Complete(comp_ev)
    /\ n0 = 2 /\ n1 = 3
    /\ sgUsed = 2
    /\ mat = ExampleMat /\ vec = ExampleVec
    /\ res = ExampleRes

\* C5: a call that returned allocated exactly one scratch buffer, appended
\* exactly one handle (the cleanup event) to the caller's host_tasks, and
\* returned the compute kernel's event; the buffer is never freed twice and
\* is freed exactly once when the cleanup task has run.
C5_OneScratchOneCleanup ==
    /\ freeCount <= allocCount /\ allocCount <= 1
    /\ "bad_free" \notin fault
    /\ pc = "returned" =>
          /\ allocCount = 1
          /\ host_tasks \in {<<tmp_cleanup_ev>>,
                             <<prior_host_task, tmp_cleanup_ev>>}
          /\ ret = comp_ev
          /\ ret # tmp_cleanup_ev
          /\ (Complete(tmp_cleanup_ev) <=> freeCount = 1)
          /\ (Complete(tmp_cleanup_ev) <=> scratch = "freed")
C5_Witness ==
    /\ pc = "returned"
    /\ Complete(tmp_cleanup_ev)
    /\ freeCount = 1
    /\ host_tasks = <<prior_host_task, tmp_cleanup_ev>>

\* C6: when the scratch allocation fails the launcher throws, and nothing
\* else has happened: no kernel and no host task was submitted, host_tasks
\* is as the caller passed it, nothing is returned, the output is untouched
\* and the launcher does not go back to allocating.
C6_AllocFailureLeavesNothing ==
    scratch = "null" =>
        /\ pc = "thrown"
        /\ \A e \in {make_padded_vec_ev, comp_ev, tmp_cleanup_ev} :
              evStatus[e] = "none"
        /\ host_tasks \in {<<>>, <<prior_host_task>>}
        /\ ret = NoEvent
        /\ allocCount = 0 /\ freeCount = 0
        /\ \A k \in DOMAIN res : res[k] = Uninit
C6_Witness ==
    /\ scratch = "null"
    /\ pc = "thrown"
    /\ depends # {}
    /\ \A d \in depends : Complete(d)

\* C7: the fill kernel has not started unless every handle of the caller's
\* depends has completed, the compute kernel has not started unless the
\* fill kernel has completed, and the compute kernel never read a scratch
\* slot the fill kernel had not written.
C7_FillThenCompute ==
    /\ Started(make_padded_vec_ev) => \A d \in depends : Complete(d)
    /\ Started(comp_ev) => Complete(make_padded_vec_ev)
    /\ "unfilled_read" \notin fault
C7_Witness ==
    /\ Complete(comp_ev)
    /\ depends = DepIds
    /\ n0 * n1 > 0
    /\ sgUsed = 2

\* C8: for n1 >= 1 the scratch buffer has n1 + max_sgSize elements; once
\* filled, padded_vec[i] = vec[i mod n1] for every i, so a window of width
\* w <= max_sgSize starting at s < n1 stays inside the allocation and its
\* lane l holds vec[(s + l) mod n1].
C8_PaddedVecWraps ==
    (n1 >= 1 /\ scratch = "allocated") =>
        /\ DOMAIN padded_vec = 0..(n1 + max_sgSize - 1)
        /\ Complete(make_padded_vec_ev) =>
              /\ \A i \in 0..(n1 + max_sgSize - 1) :
                    padded_vec[i] = vec[i % n1]
              /\ \A s \in 0..(n1 - 1) : \A w \in 1..max_sgSize :
                    \A l \in 0..(w - 1) :
                       /\ s + l \in DOMAIN padded_vec
                       /\ padded_vec[s + l] = vec[(s + l) % n1]
C8_Witness ==
    /\ n1 = 3
    /\ max_sgSize = 2
    /\ scratch = "allocated"
    /\ Complete(make_padded_vec_ev)
    /\ padded_vec[4] = vec[1]
    /\ vec[1] # vec[0]

(***************************************************************************)
(* Boolean reductions (all / any)                                          *)
(***************************************************************************)
\* A floating-point not-a-number among the input values.
NaN == -3
Values == {0, 5, NaN}

\* type_utils::convert_impl<bool, T>: nonzero is true, and so is NaN
convert_impl(v) == IF v = NaN THEN TRUE ELSE v # 0
\* boolean_predicate<T>
boolean_predicate(v) == convert_impl(v)

\* outT val = convert_impl<bool, argT>(...): the boolean stored as an int32
\* (mutation: the element is cast to int32 without the conversion to bool)
ToOutT_Cast(v) == IF v = NaN THEN 0 ELSE v
ToOutT(v) == IF convert_impl(v) THEN 1 ELSE 0
BoolToOutT(b) == IF b THEN 1 ELSE 0

\* sycl::known_identity<RedOpT, resTy>::value
\* (mutation: the identity is value-initialised)
identity_val_Zero(op) == 0
identity_val(op) == IF op = "all" THEN 1 ELSE 0

\* sycl::logical_and<int32_t> / sycl::logical_or<int32_t>
\* (mutation: exclusive or, an operator under which a slot can change back)
reduction_op_Xor(op, x, y) == BoolToOutT((x # 0) # (y # 0))
\* (mutation: an operator that is not commutative, it keeps its second operand)
reduction_op_Second(op, x, y) == BoolToOutT(y # 0)
reduction_op(op, x, y) ==
    IF op = "all"
    THEN BoolToOutT(x # 0 /\ y # 0)
    ELSE BoolToOutT(x # 0 \/ y # 0)

Contig == red.variant = "contig"
iter_nelems == red.iter_nelems
reduction_nelems == red.reduction_nelems

\* wg = 4 * max sub-group size
wg == 4 * max_sgSize

\* if (reduction_nelems < wg)
\* (mutation: the threshold is compared with <=)
UseSequential_Le == reduction_nelems <= wg
UseSequential == reduction_nelems < wg

preferred_reductions_per_wi == 4
reductions_per_wi ==
    IF reduction_nelems < preferred_reductions_per_wi * wg
    THEN (reduction_nelems + wg - 1) \div wg
    ELSE preferred_reductions_per_wi
\* (mutation: the division rounds down)
reduction_groups_Floor == reduction_nelems \div (reductions_per_wi * wg)
reduction_groups ==
    (reduction_nelems + reductions_per_wi * wg - 1) \div (reductions_per_wi * wg)

\* the typed base pointers: the contiguous launcher adds the offsets to the
\* pointers, the strided launcher leaves them to the indexers
arg_tp == IF Contig THEN red.iter_arg_offset + red.red_arg_offset ELSE 0
res_tp == IF Contig THEN red.iter_res_offset ELSE 0

InpRead(a) == IF arg_tp + a \in DOMAIN inp THEN inp[arg_tp + a] ELSE Uninit

\* in_out_iter_indexer and reduction_indexer of the two launchers
inp_iter_offset(id) ==
    IF Contig
    THEN Strided1DIndexer(0, iter_nelems, reduction_nelems, id)
    ELSE TwoOffsets_First(red.iter_nd, red.iter_arg_offset,
                          red.iter_shape_and_strides, id)
out_iter_offset(id) ==
    IF Contig
    THEN NoOpIndexer(id)
    ELSE TwoOffsets_Second(red.iter_nd, red.iter_res_offset,
                           red.iter_shape_and_strides, id)
inp_reduction_offset(m) ==
    IF Contig
    THEN NoOpIndexer(m)
    ELSE StridedIndexer(red.red_nd, red.reduction_arg_offset,
                        red.reduction_shape_stride, m)

\* SequentialBooleanReduction::operator(): the loop over m, from m up
RECURSIVE SeqLoop(_, _, _)
SeqLoop(id, m, red_val) ==
    IF m >= reduction_nelems
    THEN red_val
    ELSE SeqLoop(id, m + 1,
                 reduction_op(red.op, red_val,
                     ToOutT(InpRead(inp_iter_offset(id) + inp_reduction_offset(m)))))
\* the work-items whose store "out_[out_iter_offset] = red_val" goes to
\* address a
SeqWriters(a) ==
    { <<"seq", id>> : id \in { id \in 0..(iter_nelems - 1) :
                                  res_tp + out_iter_offset(id) = a } }
SequentialKernel ==
    [a \in DOMAIN out |->
        IF \E id \in 0..(iter_nelems - 1) : res_tp + out_iter_offset(id) = a
        THEN LET id == CHOOSE id \in 0..(iter_nelems - 1) :
                           res_tp + out_iter_offset(id) = a
             IN  SeqLoop(id, 0, identity_val(red.op))
        ELSE out[a]]

\* the initialisation kernel: res_tp[res_indexer(id)] = identity_val
\* (mutation: the result strides are taken at iter_nd, where the strides of
\* the input are)
res_indexer_ArgStrides(id) ==
    IF Contig
    THEN NoOpIndexer(id)
    ELSE UnpackedStridedIndexer(red.iter_nd, red.iter_res_offset,
                                red.iter_shape_and_strides, 0,
                                red.iter_nd, id)
res_indexer(id) ==
    IF Contig
    THEN NoOpIndexer(id)
    ELSE UnpackedStridedIndexer(red.iter_nd, red.iter_res_offset,
                                red.iter_shape_and_strides, 0,
                                2 * red.iter_nd, id)
\* the work-items whose store "res_tp[res_offset] = identity_val" goes to
\* address a
InitWriters(a) ==
    { <<"init", id>> : id \in { id \in 0..(iter_nelems - 1) :
                                   res_tp + res_indexer(id) = a } }
InitKernel ==
    [a \in DOMAIN out |->
        IF \E id \in 0..(iter_nelems - 1) : res_tp + res_indexer(id) = a
        THEN identity_val(red.op)
        ELSE out[a]]

\* the 2-D launch: one row of reduction_groups work-groups per iteration index
WorkGroups ==
    { <<i, b>> : i \in 0..(iter_nelems - 1), b \in 0..(reduction_groups - 1) }

Min(a, b) == IF a < b THEN a ELSE b

\* ContigBooleanReduction: the work-group's range and its joint_all_of /
\* joint_any_of over it
ContigStart(reduction_id, reduction_batch_id) ==
    reduction_id * reduction_nelems
        + reduction_batch_id * wg * reductions_per_wi
ContigEnd(reduction_id, reduction_batch_id) ==
    Min(ContigStart(reduction_id, reduction_batch_id) + reductions_per_wi * wg,
        reduction_id * reduction_nelems + reduction_nelems)
ContigGroupOp(reduction_id, reduction_batch_id) ==
    LET range == ContigStart(reduction_id, reduction_batch_id)
                   ..(ContigEnd(reduction_id, reduction_batch_id) - 1)
    IN  IF red.op = "all"
        THEN BoolToOutT(\A a \in range : boolean_predicate(InpRead(a)))
        ELSE BoolToOutT(\E a \in range : boolean_predicate(InpRead(a)))

\* StridedBooleanReduction: the work-item's loop over m, then all_of_group /
\* any_of_group over the work-items' local values
\* arg_reduce_gid = arg_reduce_gid0 + m * wg_size
arg_reduce_gid(reduction_batch_id, reduction_lid, m) ==
    reduction_lid + reduction_batch_id * wg * reductions_per_wi + m * wg
RECURSIVE StridedLoop(_, _, _, _, _)
StridedLoop(reduction_id, reduction_batch_id, reduction_lid, m, local_red_val) ==
    IF m >= reductions_per_wi
    THEN local_red_val
    ELSE LET gid == arg_reduce_gid(reduction_batch_id, reduction_lid, m)
         IN  StridedLoop(reduction_id, reduction_batch_id, reduction_lid, m + 1,
                 IF gid < reduction_nelems
                 THEN reduction_op(red.op, local_red_val,
                          ToOutT(InpRead(inp_iter_offset(reduction_id)
                                     + inp_reduction_offset(gid))))
                 ELSE local_red_val)
\* the (work-group, work-item, step) triples of one row whose read is not
\* skipped by "if (arg_reduce_gid < reduction_max_gid_)"
StridedReads ==
    { t \in (0..(reduction_groups - 1)) \X (0..(wg - 1))
               \X (0..(reductions_per_wi - 1)) :
         arg_reduce_gid(t[1], t[2], t[3]) < reduction_nelems }
StridedGroupOp(reduction_id, reduction_batch_id) ==
    LET local(lid) == StridedLoop(reduction_id, reduction_batch_id, lid, 0,
                                  identity_val(red.op))
    IN  IF red.op = "all"
        THEN BoolToOutT(\A lid \in 0..(wg - 1) : boolean_predicate(local(lid)))
        ELSE BoolToOutT(\E lid \in 0..(wg - 1) : boolean_predicate(local(lid)))

red_val_over_wg(g) ==
    IF Contig THEN ContigGroupOp(g[1], g[2]) ELSE StridedGroupOp(g[1], g[2])
\* the slot the leader's atomic_ref refers to
\* (mutation: the slot is indexed by the batch id, not the reduction id)
res_ref_Batch(g) == res_tp + g[2]
res_ref(g) == IF Contig THEN res_tp + g[1] ELSE res_tp + out_iter_offset(g[1])
OutRead(a) == IF a \in DOMAIN out THEN out[a] ELSE Uninit

\* compare_exchange_strong succeeds iff the slot holds the expected value
\* (mutation: the leader stores without comparing)
CasSucceeds_Always(current, expected) == TRUE
CasSucceeds(current, expected) == current = expected

\* cgh.depends_on of the reduction's command groups
SeqDependsOn == depends
InitDependsOn == depends
\* (mutation: the reduction kernel waits for the caller's handles, not for
\* the initialisation kernel)
RedDependsOn_Caller == depends
RedDependsOn == {init_ev}

(***************************************************************************)
(* The host thread inside boolean_reduction_contig_impl /                  *)
(* boolean_reduction_strided_impl                                          *)
(***************************************************************************)
\* Each launcher ends with "return red_ev" right after its last submission.
RedReturned == red_ev

SubmitSeq ==
    /\ pc = "red_submit"
    /\ UseSequential
    /\ Submit(red_ev, SeqDependsOn)
    /\ ret' = RedReturned
    /\ pc' = "returned"
    /\ UNCHANGED <<flagVars, typeVars, mulVars, depends, sg_sizes, bcastVars, redVars>>

SubmitInit ==
    /\ pc = "red_submit"
    /\ ~UseSequential
    /\ Submit(init_ev, InitDependsOn)
    /\ pc' = "red_submit_red"
    /\ UNCHANGED <<flagVars, typeVars, mulVars, depends, sg_sizes, ret, bcastVars, redVars>>

SubmitRed ==
    /\ pc = "red_submit_red"
    /\ Submit(red_ev, RedDependsOn)
    /\ wgs' = [g \in WorkGroups |->
                  [pc |-> "load", red_val_over_wg |-> 0, read_val |-> 0,
                   attempts |-> 0]]
    /\ ret' = RedReturned
    /\ pc' = "returned"
    /\ UNCHANGED <<flagVars, typeVars, mulVars, depends, sg_sizes, bcastVars, red, data,
                   inp, out, outWrites, outReads>>

(***************************************************************************)
(* The reduction kernels on the queue                                      *)
(***************************************************************************)
FinishSeq ==
    /\ UseSequential
    /\ Finish(red_ev)
    /\ out' = SequentialKernel
    /\ outWrites' = [a \in DOMAIN outWrites |-> outWrites[a] \cup SeqWriters(a)]
    /\ UNCHANGED <<flagVars, typeVars, mulVars, pc, depends, evDeps, sg_sizes, ret,
                   bcastVars, red, data, inp, wgs, outReads>>

FinishInit ==
    /\ Finish(init_ev)
    /\ out' = InitKernel
    /\ outWrites' = [a \in DOMAIN outWrites |-> outWrites[a] \cup InitWriters(a)]
    /\ UNCHANGED <<flagVars, typeVars, mulVars, pc, depends, evDeps, sg_sizes, ret,
                   bcastVars, red, data, inp, wgs, outReads>>

\* A work-group reduces its part of the row; its leader loads the slot.
WGLoad ==
    /\ ~UseSequential
    /\ evStatus[red_ev] = "running"
    /\ \E g \in DOMAIN wgs :
          /\ wgs[g].pc = "load"
          /\ wgs' = [wgs EXCEPT ![g] =
                        [pc |-> "cas",
                         red_val_over_wg |-> red_val_over_wg(g),
                         read_val |-> OutRead(res_ref(g)),
                         attempts |-> 0]]
          /\ outReads' = [a \in DOMAIN outReads |->
                             IF a = res_ref(g)
                             THEN outReads[a] \cup {<<"leader", g[1], g[2]>>}
                             ELSE outReads[a]]
    /\ UNCHANGED <<flagVars, typeVars, mulVars, queueVars, bcastVars, red, data, inp, out,
                   outWrites>>

\* One pass of the leader's do-while loop: new_val = op(read_val, partial),
\* then compare_exchange_strong(read_val, new_val), which on failure reloads
\* read_val.
WGCas ==
    /\ ~UseSequential
    /\ evStatus[red_ev] = "running"
    /\ \E g \in DOMAIN wgs :
          /\ wgs[g].pc = "cas"
          /\ LET new_val == reduction_op(red.op, wgs[g].read_val,
                                         wgs[g].red_val_over_wg)
             IN  IF CasSucceeds(OutRead(res_ref(g)), wgs[g].read_val)
                 THEN /\ out' = [out EXCEPT ![res_ref(g)] = new_val]
                      /\ outWrites' =
                            [a \in DOMAIN outWrites |->
                                IF a = res_ref(g)
                                THEN outWrites[a] \cup {<<"leader", g[1], g[2]>>}
                                ELSE outWrites[a]]
                      /\ wgs' = [wgs EXCEPT ![g].pc = "done",
                                            ![g].attempts = @ + 1]
                 ELSE /\ out' = out
                      /\ outWrites' = outWrites
                      /\ wgs' = [wgs EXCEPT ![g].read_val = OutRead(res_ref(g)),
                                            ![g].attempts = @ + 1]
          /\ outReads' = [a \in DOMAIN outReads |->
                             IF a = res_ref(g)
                             THEN outReads[a] \cup {<<"leader", g[1], g[2]>>}
                             ELSE outReads[a]]
    /\ UNCHANGED <<flagVars, typeVars, mulVars, queueVars, bcastVars, red, data, inp>>

\* The two-phase kernel completes when all its work-groups have.
FinishRed ==
    /\ ~UseSequential
    /\ \A g \in DOMAIN wgs : wgs[g].pc = "done"
    /\ Finish(red_ev)
    /\ UNCHANGED <<flagVars, typeVars, mulVars, pc, depends, evDeps, sg_sizes, ret, bcastVars, redVars>>

(***************************************************************************)
(* Specification of the boolean reductions                                 *)
(***************************************************************************)
BcastIdle ==
    /\ n0 = 0 /\ n1 = 0
    /\ mat = <<>> /\ vec = <<>> /\ res = <<>> /\ padded_vec = <<>>
    /\ scratch = "none"
    /\ allocCount = 0 /\ freeCount = 0
    /\ host_tasks = <<>>
    /\ sgUsed = 0
    /\ fault = {}

RedDevices == { { Pow2(k) : k \in 0..m } : m \in 0..MaxRedSgLog }

\* Rows of the caller's array.  Rows up to FullRowLen are all the rows over
\* Values; longer rows are constant, or constant but for one element, which
\* in the rows longer than MaxRed is the first, the middle or the last.
ConstRow(n, c) == [m \in 0..(n - 1) |-> c]
OneOff(n, c, d, p) == [m \in 0..(n - 1) |-> IF m = p THEN d ELSE c]
RowFamily(n) ==
    IF n <= FullRowLen
    THEN [0..(n - 1) -> Values]
    ELSE IF n <= MaxRed
    THEN { ConstRow(n, c) : c \in Values }
         \cup { OneOff(n, 0, 5, p) : p \in 0..(n - 1) }
         \cup { OneOff(n, 5, 0, p) : p \in 0..(n - 1) }
         \cup { OneOff(n, 0, NaN, p) : p \in {0, n - 1} }
    ELSE { ConstRow(n, c) : c \in Values }
         \cup { OneOff(n, 0, 5, p) : p \in {0, n \div 2, n - 1} }
         \cup { OneOff(n, 5, 0, p) : p \in {0, n \div 2, n - 1} }
\* The first row ranges over the family; the rows after it are constant and
\* alternate between 5 and 0.
DataSets(ni, n) ==
    { [i \in 0..(ni - 1) |-> IF i = 0 THEN r
                             ELSE ConstRow(n, IF i % 2 = 1 THEN 5 ELSE 0)] :
        r \in RowFamily(n) }
    \cup (IF ni = 2 /\ n = 2
          THEN { [i \in 0..1 |-> IF i = 0 THEN ConstRow(2, 0)
                                 ELSE OneOff(2, 0, 5, 1)] }
          ELSE {})

\* The same row twice, the second time with its elements rearranged along the
\* reduced axis.  Short rows are rearranged by the two generators of the
\* permutations (the rotation by one and the swap of the first two elements),
\* long rows by the reversal, which moves an element from the first
\* work-group's range to the last one's.
Rotated(r, n) == [m \in 0..(n - 1) |-> r[(m + 1) % n]]
Swapped(r, n) == [m \in 0..(n - 1) |-> IF m = 0 THEN r[1]
                                        ELSE IF m = 1 THEN r[0] ELSE r[m]]
Reversed(r, n) == [m \in 0..(n - 1) |-> r[n - 1 - m]]
Shuffled(n) ==
    IF n < 2 THEN {}
    ELSE IF n <= FullRowLen
    THEN { <<r, Rotated(r, n)>> : r \in RowFamily(n) }
         \cup { <<r, Swapped(r, n)>> : r \in RowFamily(n) }
    ELSE { <<r, Reversed(r, n)>> :
              r \in { OneOff(n, 0, 5, 0), OneOff(n, 5, 0, 0),
                      OneOff(n, 5, NaN, 0) } }
PermutedPairs(ni, n) ==
    IF ni = 2
    THEN { [i \in 0..1 |-> s[i + 1]] : s \in Shuffled(n) }
    ELSE {}

\* The calls: the contiguous launcher with nonzero offsets, and the strided
\* launcher on an F-ordered array with nonzero offsets and a result stride
\* of 2, with the iteration space given as (ni) or as (1, ni).
RedCalls(op, ni, n) ==
    { [op |-> op, variant |-> "contig", iter_nelems |-> ni,
       reduction_nelems |-> n,
       iter_arg_offset |-> 1, iter_res_offset |-> 1, red_arg_offset |-> 1],
      [op |-> op, variant |-> "strided", iter_nelems |-> ni,
       reduction_nelems |-> n,
       iter_nd |-> 1, iter_shape_and_strides |-> <<ni, 1, 2>>,
       iter_arg_offset |-> 1, iter_res_offset |-> 1,
       red_nd |-> 1,
       reduction_shape_stride |-> <<n, IF ni = 0 THEN 1 ELSE ni>>,
       reduction_arg_offset |-> 2] }
    \cup
    (IF ni = 2
     THEN { [op |-> op, variant |-> "strided", iter_nelems |-> ni,
             reduction_nelems |-> n,
             iter_nd |-> 2, iter_shape_and_strides |-> <<1, ni, 0, 1, 0, 2>>,
             iter_arg_offset |-> 1, iter_res_offset |-> 1,
             red_nd |-> 1,
             reduction_shape_stride |-> <<n, ni>>,
             reduction_arg_offset |-> 2] }
     ELSE {})

\* Where the caller keeps element (i, m) of the array and result i.
ArgAddr(r, i, m) ==
    IF r.variant = "contig"
    THEN r.iter_arg_offset + r.red_arg_offset + i * r.reduction_nelems + m
    ELSE r.iter_arg_offset + r.reduction_arg_offset
           + i * r.iter_shape_and_strides[2 * r.iter_nd]
           + m * r.reduction_shape_stride[2]
ResAddr(r, i) ==
    IF r.variant = "contig"
    THEN r.iter_res_offset + i
    ELSE r.iter_res_offset + i * r.iter_shape_and_strides[3 * r.iter_nd]
InpBuffer(r, d) ==
    LET size == ArgAddr(r, 0, 0) + r.iter_nelems * r.reduction_nelems + 2
    IN  [a \in 0..(size - 1) |->
            IF \E i \in 0..(r.iter_nelems - 1) :
                  \E m \in 0..(r.reduction_nelems - 1) : ArgAddr(r, i, m) = a
            THEN LET im == CHOOSE im \in (0..(r.iter_nelems - 1))
                                           \X (0..(r.reduction_nelems - 1)) :
                               ArgAddr(r, im[1], im[2]) = a
                 IN  d[im[1]][im[2]]
            ELSE Uninit]
OutBuffer(r) == [a \in 0..ResAddr(r, r.iter_nelems) |-> Uninit]

RedInit ==
    /\ pc = "red_submit"
    /\ depends \in {{}, DepIds}
    /\ evStatus = [e \in EventIds |->
                      IF e \in depends THEN "submitted"
                      ELSE IF e = prior_host_task THEN "complete" ELSE "none"]
    /\ evDeps = [e \in EventIds |-> {}]
    /\ sg_sizes \in RedDevices
    /\ ret = NoEvent
    /\ \E op \in {"all", "any"} : \E ni \in 0..MaxIter :
       \E n \in (0..MaxRed) \cup {LongRed} :
          /\ red \in RedCalls(op, ni, n)
          /\ data \in DataSets(ni, n) \cup PermutedPairs(ni, n)
    /\ IF UseSequential THEN TRUE
       ELSE iter_nelems * reduction_groups <= MaxWorkGroups
    /\ inp = InpBuffer(red, data)
    /\ out = OutBuffer(red)
    /\ wgs = <<>>
    /\ outWrites = [a \in DOMAIN out |-> {}]
    /\ outReads = [a \in DOMAIN out |-> {}]
    /\ BcastIdle
    /\ TypeIdle
    /\ FlagIdle
    /\ MulIdle

RedNext ==
    \/ SubmitSeq
    \/ SubmitInit
    \/ SubmitRed
    \/ CompleteDep
    \/ Start
    \/ FinishSeq
    \/ FinishInit
    \/ WGLoad
    \/ WGCas
    \/ FinishRed

RedSpec == RedInit /\ [][RedNext]_vars

(***************************************************************************)
(* Properties of the boolean reductions (under RedSpec)                    *)
(***************************************************************************)
Rows == 0..(red.iter_nelems - 1)
Cols == 0..(red.reduction_nelems - 1)
Truthy(v) == v = NaN \/ v # 0
\* The reference: a sequential left fold of row i of the caller's array.
RECURSIVE RefFold(_, _, _)
RefFold(i, m, acc) ==
    IF m >= red.reduction_nelems
    THEN acc
    ELSE RefFold(i, m + 1,
                 IF red.op = "all"
                 THEN (IF acc = 1 /\ Truthy(data[i][m]) THEN 1 ELSE 0)
                 ELSE (IF acc = 1 \/ Truthy(data[i][m]) THEN 1 ELSE 0))
Reference(i) == RefFold(i, 0, IF red.op = "all" THEN 1 ELSE 0)
TwoPhase == red.reduction_nelems >= 4 * max_sgSize
GroupsOf(i) == { g \in DOMAIN wgs : g[1] = i }
Finished(i) == GroupsOf(i) # {} /\ \A g \in GroupsOf(i) : wgs[g].pc = "done"

\* C2: on the two-phase path, under every interleaving of the leaders' loads
\* and compare-and-swaps, once all work-groups of an iteration index have
\* finished, its output slot holds the fold of the operator over the
\* work-groups' partial results (their logical and for all, their logical
\* or for any).
C2_AtomicCombine ==
    \A i \in Rows :
        Finished(i) =>
            out[ResAddr(red, i)] =
                IF red.op = "all"
                THEN (IF \A g \in GroupsOf(i) : wgs[g].red_val_over_wg = 1
                      THEN 1 ELSE 0)
                ELSE (IF \E g \in GroupsOf(i) : wgs[g].red_val_over_wg = 1
                      THEN 1 ELSE 0)
C2_Witness ==
    /\ red.op = "all"
    /\ red.iter_nelems = 2
    /\ Finished(0)
    /\ Cardinality(GroupsOf(0)) = 2
    /\ wgs[<<0, 0>>].red_val_over_wg = 0
    /\ wgs[<<0, 1>>].red_val_over_wg = 1
    /\ wgs[<<0, 1>>].attempts = 2
    /\ out[ResAddr(red, 0)] = 0

\* C3: the launcher takes the sequential path (no initialisation kernel, no
\* work-groups) exactly when reduction_nelems < wg = 4 * max sub-group size
\* and the two-phase path otherwise, and once the returned event completed
\* every output slot holds the reference sequential fold of its row -- on
\* either path, so in particular at reduction_nelems = wg - 1 and = wg.
C3_PathsAgreeWithReference ==
    /\ pc = "returned" =>
          /\ (evStatus[init_ev] = "none") <=> (red.reduction_nelems < 4 * max_sgSize)
          /\ (evStatus[init_ev] # "none") <=> TwoPhase
          /\ evStatus[red_ev] # "none"
    /\ (~TwoPhase) => wgs = <<>>
    /\ Complete(red_ev) =>
          \A i \in Rows : out[ResAddr(red, i)] = Reference(i)
C3_Witness ==
    /\ red.reduction_nelems = 4 * max_sgSize
    /\ red.op = "all"
    /\ red.iter_nelems = 2
    /\ Complete(init_ev)
    /\ Complete(red_ev)
    /\ data[0][3] = 0 /\ data[0][0] = NaN /\ data[0][1] = 5 /\ data[0][2] = 5
    /\ out[ResAddr(red, 0)] = 0
    /\ out[ResAddr(red, 1)] = 1
C3_WitnessSequential ==
    /\ red.reduction_nelems = 4 * max_sgSize - 1
    /\ red.op = "any"
    /\ red.iter_nelems = 2
    /\ evStatus[init_ev] = "none"
    /\ Complete(red_ev)
    /\ data[0][2] = NaN /\ data[0][0] = 0 /\ data[0][1] = 0
    /\ out[ResAddr(red, 0)] = 1

\* C9: for a reduction of size 0 the completed reduction has written the
\* identity to every output slot, whatever the number of iteration indices:
\* 1 for all, 0 for any.
C9_EmptyReductionIsIdentity ==
    (red.reduction_nelems = 0 /\ Complete(red_ev)) =>
        \A i \in Rows :
            out[ResAddr(red, i)] = (IF red.op = "all" THEN 1 ELSE 0)
C9_Witness ==
    /\ red.op = "all"
    /\ red.reduction_nelems = 0
    /\ red.iter_nelems = 2
    /\ Complete(red_ev)
    /\ out[ResAddr(red, 0)] = 1 /\ out[ResAddr(red, 1)] = 1

\* C10: once the reduction completed every output slot holds 0 or 1; for
\* any it is 1 iff some element of the row is nonzero or NaN, for all it is
\* 1 iff every element of the row is nonzero or NaN; any over [[0,0],[0,5]]
\* gives [0,1] and all gives [0,0].
ExampleData == [i \in 0..1 |-> IF i = 0 THEN ConstRow(2, 0) ELSE OneOff(2, 0, 5, 1)]
C10_ZeroOneCodes ==
    Complete(red_ev) =>
        /\ \A i \in Rows :
              /\ out[ResAddr(red, i)] \in {0, 1}
              /\ red.op = "any" =>
                    (out[ResAddr(red, i)] = 1
                        <=> \E m \in Cols : data[i][m] = NaN \/ data[i][m] # 0)
              /\ red.op = "all" =>
                    (out[ResAddr(red, i)] = 1
                        <=> \A m \in Cols : data[i][m] = NaN \/ data[i][m] # 0)
        /\ (data = ExampleData /\ red.op = "any") =>
              (out[ResAddr(red, 0)] = 0 /\ out[ResAddr(red, 1)] = 1)
        /\ (data = ExampleData /\ red.op = "all") =>
              (out[ResAddr(red, 0)] = 0 /\ out[ResAddr(red, 1)] = 0)
C10_Witness ==
    /\ Complete(red_ev)
    /\ data = ExampleData
    /\ red.op = "any"
    /\ red.variant = "strided"
    /\ out[ResAddr(red, 0)] = 0 /\ out[ResAddr(red, 1)] = 1
C10_WitnessNaN ==
    /\ Complete(red_ev)
    /\ red.op = "all"
    /\ red.reduction_nelems = 17
    /\ red.iter_nelems = 1
    /\ data[0] = OneOff(17, 0, NaN, 16)
    /\ out[ResAddr(red, 0)] = 0

\* Rows i and j of the caller's array hold the same elements in some order.
SameElements(i, j) ==
    \A v \in Values :
        Cardinality({ m \in Cols : data[i][m] = v })
            = Cardinality({ m \in Cols : data[j][m] = v })

\* C11: once the reduction completed (all or any, sequential or two-phase
\* path, contiguous or strided), any two rows of the array that hold the
\* same elements in a different order along the reduced axis have the same
\* output.
C11_PermutationInvariant ==
    Complete(red_ev) =>
        \A i \in Rows : \A j \in Rows :
            SameElements(i, j) => out[ResAddr(red, i)] = out[ResAddr(red, j)]
C11_Witness ==
    /\ Complete(red_ev)
    /\ Complete(init_ev)
    /\ red.op = "all"
    /\ red.iter_nelems = 2
    /\ red.reduction_nelems = 17
    /\ data[0] = OneOff(17, 5, 0, 0)
    /\ data[1] = OneOff(17, 5, 0, 16)
    /\ out[ResAddr(red, 0)] = 0
    /\ out[ResAddr(red, 1)] = 0
C11_WitnessSequential ==
    /\ Complete(red_ev)
    /\ evStatus[init_ev] = "none"
    /\ red.op = "any"
    /\ red.iter_nelems = 2
    /\ red.reduction_nelems = 3
    /\ data[0] = OneOff(3, 0, NaN, 2)
    /\ data[1] = OneOff(3, 0, NaN, 1)
    /\ out[ResAddr(red, 0)] = 1
    /\ out[ResAddr(red, 1)] = 1

\* C12: on the two-phase path (contiguous and strided) the initialisation
\* kernel has not started unless every handle of the caller's depends has
\* completed; the reduction kernel has not started, and no work-group leader
\* has read or updated an output slot, unless the initialisation kernel has
\* completed; the launcher returns the reduction kernel's event, whose
\* completion implies that of the whole chain; and no host task was
\* submitted and nothing was appended to a host task list.
C12_InitThenReduce ==
    TwoPhase =>
        /\ Started(init_ev) => \A d \in depends : Complete(d)
        /\ Started(red_ev) => Complete(init_ev)
        /\ (\E g \in DOMAIN wgs : wgs[g].pc # "load") =>
              (Complete(init_ev) /\ Started(red_ev))
        /\ pc = "returned" => (ret = red_ev /\ ret # init_ev)
        /\ Complete(red_ev) =>
              /\ Complete(init_ev)
              /\ \A d \in depends : Complete(d)
              /\ \A g \in DOMAIN wgs : wgs[g].pc = "done"
        /\ evStatus[tmp_cleanup_ev] = "none"
        /\ host_tasks = <<>>
        /\ scratch = "none" /\ allocCount = 0
C12_Witness ==
    /\ TwoPhase
    /\ red.variant = "strided"
    /\ red.iter_nelems = 2
    /\ depends = DepIds
    /\ ret = red_ev
    /\ Complete(red_ev)
    /\ Complete(init_ev)
    /\ out[ResAddr(red, 0)] \in {0, 1}

(***************************************************************************)
(* Multiply type dispatch: MultiplyOutputType and the kernel factories     *)
(***************************************************************************)
MaxLookups == 2

\* The element types of the library's type list; void is "no result type".
Types == { "bool", "uint8", "int8", "uint16", "int16", "uint32", "int32",
           "uint64", "int64", "half", "float", "double",
           "complex<float>", "complex<double>" }
void == "void"
nullptr == "nullptr"

Entry(Ty1, Ty2, result_type) ==
    [Ty1 |-> Ty1, Ty2 |-> Ty2, result_type |-> result_type]

\* The entries of MultiplyOutputType's std::disjunction, in source order.
\* (mutation: a second entry for (float, float), promoting to double)
MultiplyOutputEntries_Duplicate ==
    << Entry("bool", "bool", "bool"),
       Entry("uint8", "uint8", "uint8"),
       Entry("int8", "int8", "int8"),
       Entry("uint16", "uint16", "uint16"),
       Entry("int16", "int16", "int16"),
       Entry("uint32", "uint32", "uint32"),
       Entry("int32", "int32", "int32"),
       Entry("uint64", "uint64", "uint64"),
       Entry("int64", "int64", "int64"),
       Entry("half", "half", "half"),
       Entry("float", "float", "float"),
       Entry("float", "float", "double"),
       Entry("double", "double", "double"),
       Entry("complex<float>", "complex<float>", "complex<float>"),
       Entry("complex<double>", "complex<double>", "complex<double>") >>
MultiplyOutputEntries ==
    << Entry("bool", "bool", "bool"),
       Entry("uint8", "uint8", "uint8"),
       Entry("int8", "int8", "int8"),
       Entry("uint16", "uint16", "uint16"),
       Entry("int16", "int16", "int16"),
       Entry("uint32", "uint32", "uint32"),
       Entry("int32", "int32", "int32"),
       Entry("uint64", "uint64", "uint64"),
       Entry("int64", "int64", "int64"),
       Entry("half", "half", "half"),
       Entry("float", "float", "float"),
       Entry("double", "double", "double"),
       Entry("complex<float>", "complex<float>", "complex<float>"),
       Entry("complex<double>", "complex<double>", "complex<double>") >>

\* td_ns::BinaryTypeMapResultEntry<T1, Ty1, T2, Ty2, R>::value
BinaryTypeMapResultEntry(t1, t2, e) == t1 = e.Ty1 /\ t2 = e.Ty2
\* td_ns::DefaultResultEntry<void>: always matches, result type void
DefaultResultEntry == void

\* std::disjunction<entries..., DefaultResultEntry<void>>::result_type: the
\* result type of the first entry whose value is true
Disjunction(entries, t1, t2) ==
    LET matching == { k \in 1..Len(entries) :
                         BinaryTypeMapResultEntry(t1, t2, entries[k]) }
    IN  IF matching = {}
        THEN DefaultResultEntry
        ELSE entries[CHOOSE k \in matching : \A j \in matching : k <= j].result_type

\* MultiplyOutputType<T1, T2>::value_type
MultiplyOutputType(t1, t2) == Disjunction(MultiplyOutputEntries, t1, t2)

\* type_utils::is_complex<T>
\* (mutation: no type is recognised as complex)
is_complex_Never(t) == FALSE
is_complex(t) == t \in { "complex<float>", "complex<double>" }

Factories == { "MultiplyContigFactory", "MultiplyStridedFactory",
               "MultiplyContigMatrixContigRowBroadcastFactory",
               "MultiplyContigRowContigMatrixBroadcastFactory" }

\* MultiplyTypeMapFactory::get: the id of the result type
MultiplyTypeMapFactory_get ==
    /\ pc = "dispatch"
    /\ Len(value_types) < MaxLookups
    /\ value_types' = Append(value_types, MultiplyOutputType(T1, T2))
    /\ UNCHANGED <<flagVars, queueVars, bcastVars, redVars, mulVars, T1, T2, fns>>

\* MultiplyContigFactory::get
MultiplyContigFactory_get ==
    /\ pc = "dispatch"
    /\ fns' = [fns EXCEPT !["MultiplyContigFactory"] =
                  IF MultiplyOutputType(T1, T2) = void
                  THEN nullptr
                  ELSE "multiply_contig_impl"]
    /\ UNCHANGED <<flagVars, queueVars, bcastVars, redVars, mulVars, T1, T2, value_types>>

\* MultiplyStridedFactory::get
MultiplyStridedFactory_get ==
    /\ pc = "dispatch"
    /\ fns' = [fns EXCEPT !["MultiplyStridedFactory"] =
                  IF MultiplyOutputType(T1, T2) = void
                  THEN nullptr
                  ELSE "multiply_strided_impl"]
    /\ UNCHANGED <<flagVars, queueVars, bcastVars, redVars, mulVars, T1, T2, value_types>>

\* the body shared by the two broadcast factories
BroadcastFactoryGet(impl) ==
    LET resT == MultiplyOutputType(T1, T2)
    IN  IF resT = void
        THEN nullptr
        ELSE IF is_complex(T1) \/ is_complex(T2) \/ is_complex(resT)
             THEN nullptr
             ELSE impl

\* MultiplyContigMatrixContigRowBroadcastFactory::get
MultiplyContigMatrixContigRowBroadcastFactory_get ==
    /\ pc = "dispatch"
    /\ fns' = [fns EXCEPT !["MultiplyContigMatrixContigRowBroadcastFactory"] =
                  BroadcastFactoryGet(
                      "multiply_contig_matrix_contig_row_broadcast_impl")]
    /\ UNCHANGED <<flagVars, queueVars, bcastVars, redVars, mulVars, T1, T2, value_types>>

\* MultiplyContigRowContigMatrixBroadcastFactory::get
MultiplyContigRowContigMatrixBroadcastFactory_get ==
    /\ pc = "dispatch"
    /\ fns' = [fns EXCEPT !["MultiplyContigRowContigMatrixBroadcastFactory"] =
                  BroadcastFactoryGet(
                      "multiply_contig_row_contig_matrix_broadcast_impl")]
    /\ UNCHANGED <<flagVars, queueVars, bcastVars, redVars, mulVars, T1, T2, value_types>>

\* No launcher is called: the queue holds nothing.
QueueIdle ==
    /\ depends = {}
    /\ evStatus = [e \in EventIds |->
                      IF e = prior_host_task THEN "complete" ELSE "none"]
    /\ evDeps = [e \in EventIds |-> {}]
    /\ sg_sizes = {1}
    /\ ret = NoEvent

\* One instantiation of the factories per pair of types of the type list.
TypeInit ==
    /\ pc = "dispatch"
    /\ T1 \in Types
    /\ T2 \in Types
    /\ value_types = <<>>
    /\ fns = [f \in Factories |-> "unset"]
    /\ QueueIdle
    /\ FlagIdle
    /\ BcastIdle
    /\ RedIdle
    /\ MulIdle

TypeNext ==
    \/ MultiplyTypeMapFactory_get
    \/ MultiplyContigFactory_get
    \/ MultiplyStridedFactory_get
    \/ MultiplyContigMatrixContigRowBroadcastFactory_get
    \/ MultiplyContigRowContigMatrixBroadcastFactory_get

TypeSpec == TypeInit /\ [][TypeNext]_vars

(***************************************************************************)
(* Properties of the type dispatch (under TypeSpec)                        *)
(***************************************************************************)
\* The entries in the opposite order, and with the first entry moved last.
ReversedEntries(entries) ==
    [k \in 1..Len(entries) |-> entries[Len(entries) + 1 - k]]
RotatedEntries(entries) ==
    [k \in 1..Len(entries) |-> entries[(k % Len(entries)) + 1]]
MatchingEntries ==
    { k \in 1..Len(MultiplyOutputEntries) :
         MultiplyOutputEntries[k].Ty1 = T1 /\ MultiplyOutputEntries[k].Ty2 = T2 }

\* C13: for the pair (T1, T2) of element types, every lookup returned T1 if
\* T1 = T2 and void (unsupported) otherwise; at most one entry of the table
\* matches the pair, so the lookup over the table in another order gives
\* the same result; and repeated lookups returned the same result.
C13_PromotionIsDiagonal ==
    /\ \A k \in 1..Len(value_types) :
          value_types[k] = (IF T1 = T2 THEN T1 ELSE void)
    /\ Cardinality(MatchingEntries) <= 1
    /\ (T1 = T2) <=> (Cardinality(MatchingEntries) = 1)
    /\ Disjunction(ReversedEntries(MultiplyOutputEntries), T1, T2)
          = MultiplyOutputType(T1, T2)
    /\ Disjunction(RotatedEntries(MultiplyOutputEntries), T1, T2)
          = MultiplyOutputType(T1, T2)
    /\ \A j \in 1..Len(value_types) : \A k \in 1..Len(value_types) :
          value_types[j] = value_types[k]
C13_Witness ==
    /\ T1 = "int32" /\ T2 = "int32"
    /\ Len(value_types) = 2
    /\ value_types[1] = "int32" /\ value_types[2] = "int32"
C13_WitnessMixed ==
    /\ T1 = "int32" /\ T2 = "complex<float>"
    /\ Len(value_types) = 2
    /\ value_types[1] = void /\ value_types[2] = void

Unsupported == MultiplyOutputType(T1, T2) = void
ComplexTypes == { "complex<float>", "complex<double>" }
AnyComplex ==
    T1 \in ComplexTypes \/ T2 \in ComplexTypes
        \/ MultiplyOutputType(T1, T2) \in ComplexTypes
Got(f) == fns[f] # "unset"

\* C14: for the pair (T1, T2), once a factory's get() has returned: the
\* contiguous and the strided factory returned null iff the promotion
\* result is void (i.e. iff T1 # T2), and their launcher otherwise; the
\* matrix-by-row and row-by-matrix broadcast factories returned null iff
\* the promotion result is void or T1, T2 or the result type is complex,
\* and their launcher otherwise.
C14_FactoriesNullIffUnsupported ==
    /\ Got("MultiplyContigFactory") =>
          /\ fns["MultiplyContigFactory"] = nullptr <=> Unsupported
          /\ fns["MultiplyContigFactory"] = nullptr <=> T1 # T2
          /\ ~Unsupported => fns["MultiplyContigFactory"] = "multiply_contig_impl"
    /\ Got("MultiplyStridedFactory") =>
          /\ fns["MultiplyStridedFactory"] = nullptr <=> Unsupported
          /\ fns["MultiplyStridedFactory"] = nullptr <=> T1 # T2
          /\ ~Unsupported => fns["MultiplyStridedFactory"] = "multiply_strided_impl"
    /\ Got("MultiplyContigMatrixContigRowBroadcastFactory") =>
          /\ fns["MultiplyContigMatrixContigRowBroadcastFactory"] = nullptr
                <=> (Unsupported \/ AnyComplex)
          /\ ~(Unsupported \/ AnyComplex) =>
                fns["MultiplyContigMatrixContigRowBroadcastFactory"]
                    = "multiply_contig_matrix_contig_row_broadcast_impl"
    /\ Got("MultiplyContigRowContigMatrixBroadcastFactory") =>
          /\ fns["MultiplyContigRowContigMatrixBroadcastFactory"] = nullptr
                <=> (Unsupported \/ AnyComplex)
          /\ ~(Unsupported \/ AnyComplex) =>
                fns["MultiplyContigRowContigMatrixBroadcastFactory"]
                    = "multiply_contig_row_contig_matrix_broadcast_impl"
C14_Witness ==
    /\ T1 = "complex<float>" /\ T2 = "complex<float>"
    /\ fns["MultiplyContigFactory"] = "multiply_contig_impl"
    /\ fns["MultiplyStridedFactory"] = "multiply_strided_impl"
    /\ fns["MultiplyContigMatrixContigRowBroadcastFactory"] = nullptr
    /\ fns["MultiplyContigRowContigMatrixBroadcastFactory"] = nullptr
C14_WitnessReal ==
    /\ T1 = "half" /\ T2 = "half"
    /\ \A f \in Factories : Got(f) /\ fns[f] # nullptr
C14_WitnessMixed ==
    /\ T1 = "float" /\ T2 = "double"
    /\ \A f \in Factories : fns[f] = nullptr

(***************************************************************************)
(* multiply_contig_impl and multiply_strided_impl                          *)
(***************************************************************************)
MaxTiles == 2

vec_sz == 4
n_vecs == 2

\* the element counts of the contiguous calls: small ones, and the ones
\* around the multiples of the tile of lws * n_vecs * vec_sz elements
NelemsSet ==
    (0..3) \cup { t * (lws * n_vecs * vec_sz) + d : t \in 1..MaxTiles, d \in {-1, 0, 1} }

\* The operands: arg1_tp[k] and arg2_tp[k] for k below the buffer size.
Arg1Buffer(size) == [k \in 0..(size - 1) |-> (3 * k + 1) % 256]
Arg2Buffer(size) == [k \in 0..(size - 1) |-> (5 * k + 2) % 256]

\* The strided calls over 6 elements: a (2,3) matrix times a row broadcast
\* with stride 0, unit strides, and a transposed first operand on (3,2).
StridedCalls ==
    { [variant |-> "strided", nelems |-> 6, nd |-> 2, shape_and_strides |-> s] :
         s \in { <<2, 3,  3, 1,  0, 1,  3, 1>>,
                 <<2, 3,  3, 1,  3, 1,  3, 1>>,
                 <<3, 2,  1, 3,  2, 1,  2, 1>> } }
ContigCalls ==
    { [variant |-> "contig", nelems |-> n, nd |-> 1,
       shape_and_strides |-> <<n, 1, 1, 1>>] : n \in NelemsSet }

nelems == mul.nelems
arg1_tp == Arg1Buffer(nelems)
arg2_tp == Arg2Buffer(nelems)

\* const size_t n_groups = (nelems + lws * n_vecs * vec_sz - 1) / (lws * n_vecs * vec_sz)
\* (mutation: the division rounds down)
contig_n_groups_Floor == nelems \div (lws * n_vecs * vec_sz)
contig_n_groups ==
    (nelems + lws * n_vecs * vec_sz - 1) \div (lws * n_vecs * vec_sz)
gws_range == contig_n_groups * lws
lws_range == lws

\* cgh.depends_on(depends); cgh.depends_on(additional_depends);
\* (mutation: the second vector of events is ignored)
MulDependsOn_Primary == depends
MulDependsOn ==
    IF mul.variant = "strided" THEN depends \cup additional_depends ELSE depends

\* BinaryContigFunctor: the sub-group of work-item gid starts at
\* base = n_vecs * vec_sz * (group * lws + sub-group id * sgSize); a
\* sub-group whose whole tile lies below nelems uses sub-group loads and
\* stores, any other loops for (k = base + lane; k < nelems; k += sgSize).
ContigBase(gid, sgSize) ==
    n_vecs * vec_sz * ((gid \div lws) * lws + ((gid % lws) \div sgSize) * sgSize)
RECURSIVE TailLoop(_, _)
TailLoop(k, sgSize) ==
    IF k < nelems THEN {k} \cup TailLoop(k + sgSize, sgSize) ELSE {}
ItemTouches(gid, sgSize) ==
    LET base == ContigBase(gid, sgSize)
        lane == (gid % lws) % sgSize
    IN  IF base + n_vecs * vec_sz * sgSize < nelems
        THEN { base + it * sgSize + lane : it \in 0..(n_vecs * vec_sz - 1) }
        ELSE TailLoop(base + lane, sgSize)
ContigTouched(sgSize) ==
    UNION { ItemTouches(gid, sgSize) : gid \in 0..(gws_range - 1) }
ContigKernel(sgSize) ==
    LET touched == ContigTouched(sgSize)
    IN  [k \in DOMAIN res |->
            IF k \in touched
            THEN MultiplyFunctor(arg1_tp[k], arg2_tp[k])
            ELSE res[k]]
ContigFaults(sgSize) ==
    IF \E k \in ContigTouched(sgSize) : k \notin DOMAIN res
    THEN {"out_of_bounds"} ELSE {}

\* BinaryStridedFunctor over the ThreeOffsets_StridedIndexer
MulStridedKernel ==
    StridedKernel(arg1_tp, arg2_tp, nelems, mul.nd, mul.shape_and_strides)

\* multiply_contig_impl / multiply_strided_impl: one submission, and the
\* launcher returns its event
SubmitMul ==
    /\ pc = "mul_submit"
    /\ Submit(comp_ev, MulDependsOn)
    /\ ret' = comp_ev
    /\ pc' = "returned"
    /\ UNCHANGED <<flagVars, depends, sg_sizes, bcastVars, redVars, typeVars, mulVars>>

\* The multiply kernel, run with one of the device's sub-group sizes.
FinishMul ==
    /\ mul.variant # "none"
    /\ Finish(comp_ev)
    /\ \E sgSize \in sg_sizes :
          /\ sgUsed' = sgSize
          /\ IF mul.variant = "contig"
             THEN /\ res' = ContigKernel(sgSize)
                  /\ fault' = fault \cup ContigFaults(sgSize)
             ELSE /\ res' = MulStridedKernel
                  /\ fault' = fault
    /\ UNCHANGED <<flagVars, pc, depends, evDeps, sg_sizes, ret, n0, n1, mat, vec,
                   padded_vec, scratch, allocCount, freeCount, host_tasks,
                   redVars, typeVars, mulVars>>

MulInit ==
    /\ pc = "mul_submit"
    /\ mul \in ContigCalls \cup StridedCalls
    /\ depends \in SUBSET DepIds
    /\ additional_depends \in
          (IF mul.variant = "strided" THEN SUBSET DepIds ELSE {{}})
    /\ evStatus = [e \in EventIds |->
                      IF e \in depends \cup additional_depends THEN "submitted"
                      ELSE IF e = prior_host_task THEN "complete" ELSE "none"]
    /\ evDeps = [e \in EventIds |-> {}]
    /\ sg_sizes \in Devices
    /\ ret = NoEvent
    /\ n0 = 0 /\ n1 = 0
    /\ mat = <<>> /\ vec = <<>> /\ padded_vec = <<>>
    /\ res = [k \in 0..(mul.nelems - 1) |-> Uninit]
    /\ scratch = "none"
    /\ allocCount = 0 /\ freeCount = 0
    /\ host_tasks = <<>>
    /\ sgUsed = 0
    /\ fault = {}
    /\ RedIdle
    /\ TypeIdle
    /\ FlagIdle

MulNext ==
    \/ SubmitMul
    \/ CompleteDep
    \/ Start
    \/ FinishMul

MulSpec == MulInit /\ [][MulNext]_vars

(***************************************************************************)
(* Properties of the contiguous and strided launchers (under MulSpec)      *)
(***************************************************************************)
TileSize == 64 * 4 * 2

\* C15: the contiguous launcher uses ceil(nelems / 512) work-groups of 64
\* work-items: the tiles cover [0, nelems) (n_groups * 512 >= nelems) with
\* the fewest groups ((n_groups - 1) * 512 < nelems for nelems > 0); no
\* element index >= nelems is read or written, also when nelems is not a
\* multiple of 512; and once the kernel completed every element below
\* nelems holds the product.
C15_ContigTiling ==
    mul.variant = "contig" =>
        /\ contig_n_groups * TileSize >= nelems
        /\ nelems > 0 => (contig_n_groups - 1) * TileSize < nelems
        /\ nelems = 0 => contig_n_groups = 0
        /\ gws_range = contig_n_groups * 64 /\ lws_range = 64
        /\ \A sgSize \in sg_sizes : \A k \in ContigTouched(sgSize) : k < nelems
        /\ "out_of_bounds" \notin fault
        /\ Complete(comp_ev) =>
              \A k \in 0..(nelems - 1) :
                  res[k] = (((3 * k + 1) % 256) * ((5 * k + 2) % 256)) % 256
C15_Witness ==
    /\ mul.variant = "contig"
    /\ nelems = TileSize + 1
    /\ contig_n_groups = 2
    /\ Complete(comp_ev)
    /\ sgUsed = 2
    /\ res[TileSize] = (((3 * TileSize + 1) % 256) * ((5 * TileSize + 2) % 256)) % 256

\* C16: the strided multiply kernel has not started unless every handle of
\* depends and every handle of additional_depends has completed, and the
\* contiguous multiply kernel has not started unless every handle of its
\* depends has completed.
C16_WaitsForBothLists ==
    /\ mul.variant = "strided" =>
          (Started(comp_ev) =>
              /\ \A d \in depends : Complete(d)
              /\ \A d \in additional_depends : Complete(d))
    /\ mul.variant = "contig" =>
          (Started(comp_ev) => \A d \in depends : Complete(d))
    /\ pc = "returned" => ret = comp_ev
C16_Witness ==
    /\ mul.variant = "strided"
    /\ depends = {1}
    /\ additional_depends = {2}
    /\ Complete(comp_ev)
    /\ res[5] # Uninit
C16_WitnessContig ==
    /\ mul.variant = "contig"
    /\ depends = DepIds
    /\ Complete(comp_ev)

CeilDiv(a, b) == (a + b - 1) \div b

\* C17: on the two-phase path (reduction_nelems = R >= wg),
\* reductions_per_wi = min(4, ceil(R / wg)) lies in 1..4 and
\* reduction_groups = ceil(R / (reductions_per_wi * wg)) >= 1; and in the
\* completed launch every reduction index below R was read by exactly one
\* (work-group, work-item, step) of the strided kernel and no index >= R was
\* read (the reads map one-to-one onto 0..R-1), and the contiguous kernel's
\* ranges [start, end) of a row are non-empty and follow one another from
\* the start of the row to its end, so every element of the row lies in
\* exactly one of them.
C17_ReductionGeometry ==
    TwoPhase =>
        /\ reductions_per_wi = Min(4, CeilDiv(red.reduction_nelems, 4 * max_sgSize))
        /\ reductions_per_wi \in 1..4
        /\ reduction_groups
              = CeilDiv(red.reduction_nelems, reductions_per_wi * 4 * max_sgSize)
        /\ reduction_groups >= 1
        /\ Complete(red_ev) =>
              /\ LET reads == StridedReads
                 IN  /\ { arg_reduce_gid(t[1], t[2], t[3]) : t \in reads } = Cols
                     /\ Cardinality(reads) = red.reduction_nelems
              /\ \A i \in Rows :
                    /\ ContigStart(i, 0) = i * red.reduction_nelems
                    /\ ContigEnd(i, reduction_groups - 1)
                          = (i + 1) * red.reduction_nelems
                    /\ \A b \in 0..(reduction_groups - 1) :
                          /\ ContigStart(i, b) < ContigEnd(i, b)
                          /\ b > 0 => ContigStart(i, b) = ContigEnd(i, b - 1)
C17_Witness ==
    /\ TwoPhase
    /\ red.reduction_nelems = 17
    /\ max_sgSize = 1
    /\ reductions_per_wi = 4
    /\ reduction_groups = 2
    /\ red.iter_nelems = 2
    /\ ContigStart(1, 1) = 33 /\ ContigEnd(1, 1) = 34
    /\ Complete(red_ev)
C17_WitnessPartial ==
    /\ TwoPhase
    /\ red.reduction_nelems = 9
    /\ reductions_per_wi = 3
    /\ reduction_groups = 1
    /\ Cardinality(StridedReads) = 9
    /\ Complete(red_ev)

(***************************************************************************)
(* All the kernels together: a call of any one of the launchers            *)
(***************************************************************************)
KernelInit == BcastInit \/ RedInit \/ MulInit
KernelNext ==
    \/ Alloc
    \/ SubmitFill
    \/ SubmitComp
    \/ SubmitCleanup
    \/ PushBack
    \/ BcastReturn
    \/ SubmitSeq
    \/ SubmitInit
    \/ SubmitRed
    \/ SubmitMul
    \/ CompleteDep
    \/ Start
    \/ FinishFill
    \/ FinishComp
    \/ FinishCleanup
    \/ FinishSeq
    \/ FinishInit
    \/ WGLoad
    \/ WGCas
    \/ FinishRed
    \/ FinishMul
KernelSpec == KernelInit /\ [][KernelNext]_vars

Slots == { ResAddr(red, i) : i \in Rows }

\* The stores to and loads from the output buffer of a boolean reduction.
C18_OutputAccesses ==
    /\ \A a \in DOMAIN out : a \notin Slots =>
          (out[a] = Uninit /\ outWrites[a] = {} /\ outReads[a] = {})
    /\ (red.variant # "none" /\ ~TwoPhase) =>
          /\ \A a \in DOMAIN out :
                /\ outReads[a] = {}
                /\ \A w \in outWrites[a] : w[1] = "seq"
          /\ \A i \in Rows :
                outWrites[ResAddr(red, i)] =
                    (IF Complete(red_ev) THEN {<<"seq", i>>} ELSE {})
    /\ TwoPhase =>
          /\ \A a \in DOMAIN out :
                /\ \A w \in outWrites[a] :
                      w[1] \in {"init", "leader"} /\ a = ResAddr(red, w[2])
                /\ \A r \in outReads[a] :
                      r[1] = "leader" /\ a = ResAddr(red, r[2])
          /\ \A g \in DOMAIN wgs :
                wgs[g].pc = "done" =>
                    <<"leader", g[1], g[2]>> \in outWrites[ResAddr(red, g[1])]
\* No step changes an input buffer or the arguments of the call.
C18_InputsKept ==
    /\ inp' = inp /\ data' = data /\ red' = red
    /\ mat' = mat /\ vec' = vec
    /\ mul' = mul

\* C18: no multiply or boolean-reduction kernel writes to an input buffer;
\* on the sequential reduction path each output slot is stored to exactly
\* once, by the work-item of its iteration index, with a plain store and
\* without being loaded; on the two-phase path an output slot is stored to
\* only by the initialisation kernel's work-item and by the leaders of the
\* work-groups of its iteration index, and loaded only by those leaders;
\* addresses that are no slot are never touched.
C18_KernelFrames == [][C18_InputsKept]_vars /\ []C18_OutputAccesses
C18_Witness ==
    /\ TwoPhase
    /\ red.reduction_nelems = 17
    /\ red.variant = "strided"
    /\ Complete(red_ev)
    /\ outWrites[ResAddr(red, 0)]
          = { <<"init", 0>>, <<"leader", 0, 0>>, <<"leader", 0, 1>> }
    /\ outReads[ResAddr(red, 0)] = { <<"leader", 0, 0>>, <<"leader", 0, 1>> }
    /\ inp = InpBuffer(red, data)
C18_WitnessSequential ==
    /\ red.variant = "contig"
    /\ red.reduction_nelems = 3
    /\ red.iter_nelems = 2
    /\ Complete(red_ev)
    /\ outWrites[ResAddr(red, 1)] = { <<"seq", 1>> }
    /\ outReads[ResAddr(red, 1)] = {}
C18_WitnessMultiply ==
    /\ mul.variant = "contig"
    /\ Complete(comp_ev)
    /\ nelems = 3
    /\ res[2] # Uninit

\* A step after the initialisation kernel completed changes a slot only
\* away from the identity: from 1 to 0 for all, from 0 to 1 for any; a slot
\* that has left the identity keeps its value.
C19_Monotone ==
    (TwoPhase /\ Complete(init_ev)) =>
        \A a \in DOMAIN out :
            /\ out'[a] # out[a] =>
                  (IF red.op = "all"
                   THEN out[a] = 1 /\ out'[a] = 0
                   ELSE out[a] = 0 /\ out'[a] = 1)
            /\ (a \in Slots /\ out[a] # (IF red.op = "all" THEN 1 ELSE 0)) =>
                  out'[a] = out[a]
\* No leader makes more than two compare-and-swap attempts, and the second
\* attempt succeeds.
C19_BoundedRetries ==
    TwoPhase =>
        \A g \in DOMAIN wgs :
            /\ wgs[g].attempts <= 2
            /\ wgs[g].attempts = 2 => wgs[g].pc = "done"
            /\ wgs[g].pc = "done" => wgs[g].attempts \in {1, 2}

\* C19: after initialisation the accumulator of the two-phase reduction is
\* monotone (a slot only goes from 1 to 0 for all and from 0 to 1 for any,
\* hence changes at most once), and under every interleaving, with no
\* fairness assumed, each work-group leader's compare-and-swap loop ends
\* after at most two attempts.
C19_MonotoneAccumulator == [][C19_Monotone]_vars /\ []C19_BoundedRetries
C19_Witness ==
    /\ TwoPhase
    /\ red.op = "any"
    /\ red.iter_nelems = 1
    /\ red.reduction_nelems = 17
    /\ data[0] = OneOff(17, 0, 5, 16)
    /\ Complete(red_ev)
    /\ wgs[<<0, 0>>].attempts = 2
    /\ wgs[<<0, 0>>].red_val_over_wg = 0
    /\ wgs[<<0, 1>>].attempts = 1
    /\ wgs[<<0, 1>>].red_val_over_wg = 1
    /\ out[ResAddr(red, 0)] = 1

\* three leaders on one slot, two of which had their first attempt fail
C19_WitnessThree ==
    /\ TwoPhase
    /\ red.op = "all"
    /\ red.iter_nelems = 1
    /\ red.reduction_nelems = LongRed
    /\ reduction_groups >= 3
    /\ data[0] = OneOff(LongRed, 5, 0, LongRed - 1)
    /\ Complete(red_ev)
    /\ wgs[<<0, 0>>].attempts = 2
    /\ wgs[<<0, 1>>].attempts = 2
    /\ wgs[<<0, 2>>].attempts = 1
    /\ out[ResAddr(red, 0)] = 0

InitialisedAddrs ==
    { a \in DOMAIN out : \E w \in outWrites[a] : w[1] = "init" }
AccumulatedAddrs ==
    { a \in DOMAIN out : \E w \in outWrites[a] \cup outReads[a] : w[1] = "leader" }

\* C20: on the two-phase path, for every iteration index i the address the
\* initialisation kernel stores the identity to is the address the leaders
\* of row i's work-groups update: i itself in the contiguous variant,
\* iter_res_offset plus the displacement of i under the result strides (at
\* position 2 * iter_nd of the packed array) in the strided variant; a slot
\* a leader has touched was initialised, and after the reduction every
\* initialised slot was accumulated into.
C20_InitMatchesAccumulate ==
    TwoPhase =>
        /\ \A i \in Rows : \A b \in 0..(reduction_groups - 1) :
              /\ res_tp + res_indexer(i) = res_ref(<<i, b>>)
              /\ res_tp + res_indexer(i) = ResAddr(red, i)
        /\ \A i \in Rows :
              IF red.variant = "contig"
              THEN res_indexer(i) = i
              ELSE res_indexer(i) =
                       red.iter_res_offset
                         + Displacement(red.iter_shape_and_strides, 0,
                                        2 * red.iter_nd, red.iter_nd, i)
        /\ AccumulatedAddrs \subseteq InitialisedAddrs
        /\ Complete(red_ev) => InitialisedAddrs = AccumulatedAddrs
        /\ Complete(init_ev) => InitialisedAddrs = Slots
C20_Witness ==
    /\ TwoPhase
    /\ red.variant = "strided"
    /\ red.iter_nd = 2
    /\ red.iter_nelems = 2
    /\ Complete(red_ev)
    /\ res_indexer(1) = 3
    /\ res_ref(<<1, 0>>) = 3
    /\ <<"init", 1>> \in outWrites[3]
    /\ <<"leader", 1, 0>> \in outWrites[3]
    /\ InitialisedAddrs = {1, 3}
C20_WitnessContig ==
    /\ TwoPhase
    /\ red.variant = "contig"
    /\ red.iter_nelems = 2
    /\ Complete(red_ev)
    /\ InitialisedAddrs = {1, 2}
    /\ AccumulatedAddrs = {1, 2}

(***************************************************************************)
(* C21: empty shapes in the matrix-by-row broadcast launcher               *)
(***************************************************************************)
\* cgh.parallel_for({n1_padded}, ...): the work-items of the fill kernel
FillItems == 0..(n1_padded - 1)

\* Every work-item of the fill kernel divides by a nonzero n1 and reads vec
\* inside [0, n1).
FillReadsInRange ==
    \A i \in FillItems : n1 # 0 /\ FillIndex(i) \in 0..(n1 - 1)

\* Every work-item of the compute kernel that touches memory reads mat
\* inside [0, n0*n1).
MatReadsInRange ==
    \A k \in ActiveItems : k \in 0..(n0 * n1 - 1)

\* C21: for every n0 >= 0 and n1 >= 0, the empty shapes included, the fill
\* kernel performs no modulo by zero and reads no vec index outside [0, n1),
\* and the compute kernel reads no mat index outside [0, n0*n1).
C21_EmptyShapesSafe ==
    /\ "div_by_zero" \notin fault
    /\ Complete(make_padded_vec_ev) => FillReadsInRange
    /\ Complete(comp_ev) => MatReadsInRange

\* The same statement restricted to a non-empty row (n1 > 0); n0 = 0 stays
\* included.
C21_SafeWithNonEmptyRow ==
    n1 > 0 => C21_EmptyShapesSafe

\* An empty matrix over a non-empty row ran both kernels.
C21_WitnessNoRows ==
    /\ pc = "returned"
    /\ n0 = 0
    /\ n1 = 2
    /\ Complete(make_padded_vec_ev)
    /\ Complete(comp_ev)
    /\ fault = {}

\* The fill kernel ran over an empty row.
C21_WitnessEmptyRow ==
    /\ n1 = 0
    /\ n0 = 1
    /\ sg_sizes = {1}
    /\ Complete(make_padded_vec_ev)
    /\ "div_by_zero" \in fault

(***************************************************************************)
(* dpctl/tensor/_flags.pyx: class Flags                                    *)
(***************************************************************************)
\* The number of bits of the bitmasks the model builds Flags objects with.
MaxFlagBits == 4

\* cimported from dpctl.tensor._usmarray
USM_ARRAY_C_CONTIGUOUS == 1
USM_ARRAY_F_CONTIGUOUS == 2
USM_ARRAY_WRITEABLE == 4

\* Python's a & b on non-negative ints
RECURSIVE BitAnd(_, _)
BitAnd(a, b) ==
    IF a = 0 \/ b = 0
    THEN 0
    ELSE (a % 2) * (b % 2) + 2 * BitAnd(a \div 2, b \div 2)

Masks == 0..(Pow2(MaxFlagBits) - 1)

\* Python values: None, bool, int, str
None == [kind |-> "none"]
PyBool(b) == [kind |-> "bool", b |-> b]
PyInt(n) == [kind |-> "int", n |-> n]
PyStr(s) == [kind |-> "str", s |-> s]
\* str.format of a value into "{}"
Format(v) ==
    IF v.kind = "bool" THEN (IF v.b THEN "True" ELSE "False")
    ELSE IF v.kind = "none" THEN "None"
    ELSE "other"

\* The properties, as functions of self.flags_.
\* def flags(self): return self.flags_
flags(self_flags_) == self_flags_

c_contiguous(self_flags_) ==
    BitAnd(self_flags_, USM_ARRAY_C_CONTIGUOUS) = USM_ARRAY_C_CONTIGUOUS

f_contiguous(self_flags_) ==
    BitAnd(self_flags_, USM_ARRAY_F_CONTIGUOUS) = USM_ARRAY_F_CONTIGUOUS

\* return False if ((self.flags & USM_ARRAY_WRITEABLE)
\*                  == USM_ARRAY_WRITEABLE) else True
writable(self_flags_) ==
    IF BitAnd(flags(self_flags_), USM_ARRAY_WRITEABLE) = USM_ARRAY_WRITEABLE
    THEN FALSE
    ELSE TRUE

forc(self_flags_) ==
    IF \/ BitAnd(self_flags_, USM_ARRAY_F_CONTIGUOUS) = USM_ARRAY_F_CONTIGUOUS
       \/ BitAnd(self_flags_, USM_ARRAY_C_CONTIGUOUS) = USM_ARRAY_C_CONTIGUOUS
    THEN TRUE
    ELSE FALSE

fnc(self_flags_) ==
    IF /\ BitAnd(self_flags_, USM_ARRAY_F_CONTIGUOUS) = USM_ARRAY_F_CONTIGUOUS
       /\ ~(BitAnd(self_flags_, USM_ARRAY_C_CONTIGUOUS) = USM_ARRAY_C_CONTIGUOUS)
    THEN TRUE
    ELSE FALSE

contiguous(self_flags_) == forc(self_flags_)

\* The keys the model looks up; "FNC" is not a key of __getitem__, which
\* then falls off its last elif and returns None.
ItemNames == {"C_CONTIGUOUS", "C", "F_CONTIGUOUS", "F", "WRITABLE",
              "CONTIGUOUS", "FNC"}

getitem(self_flags_, name) ==
    IF name \in {"C_CONTIGUOUS", "C"} THEN PyBool(c_contiguous(self_flags_))
    ELSE IF name \in {"F_CONTIGUOUS", "F"} THEN PyBool(f_contiguous(self_flags_))
    ELSE IF name = "WRITABLE" THEN PyBool(writable(self_flags_))
    ELSE IF name = "CONTIGUOUS" THEN PyBool(forc(self_flags_))
    ELSE None

\* __repr__: one line "  {} : {}" per name, joined by newlines (the string
\* is kept as the sequence of its lines, a line as its pieces)
ReprNames == <<"C_CONTIGUOUS", "F_CONTIGUOUS", "WRITABLE">>
repr(self_flags_) ==
    [k \in DOMAIN ReprNames |->
        <<"  ", ReprNames[k], " : ", Format(getitem(self_flags_, ReprNames[k]))>>]

\* A lookup on the object returns a value; the object itself is not changed.
Return(value) ==
    /\ result' = value
    /\ UNCHANGED <<arr_, flags_, queueVars, bcastVars, redVars, typeVars,
                   mulVars>>

Get_flags ==
    /\ call' = <<"flags">>
    /\ Return(PyInt(flags(flags_)))

Get_c_contiguous ==
    /\ call' = <<"c_contiguous">>
    /\ Return(PyBool(c_contiguous(flags_)))

Get_f_contiguous ==
    /\ call' = <<"f_contiguous">>
    /\ Return(PyBool(f_contiguous(flags_)))

Get_writable ==
    /\ call' = <<"writable">>
    /\ Return(PyBool(writable(flags_)))

Get_forc ==
    /\ call' = <<"forc">>
    /\ Return(PyBool(forc(flags_)))

Get_fnc ==
    /\ call' = <<"fnc">>
    /\ Return(PyBool(fnc(flags_)))

Get_contiguous ==
    /\ call' = <<"contiguous">>
    /\ Return(PyBool(contiguous(flags_)))

GetItem ==
    \E name \in ItemNames :
        /\ call' = <<"__getitem__", name>>
        /\ Return(getitem(flags_, name))

Repr ==
    /\ call' = <<"__repr__">>
    /\ Return(PyStr(repr(flags_)))

\* Flags.__init__(arr, flags)
FlagsInit ==
    /\ arr_ = "usm_ndarray"
    /\ flags_ \in Masks
    /\ call = <<"__init__">>
    /\ result = None
    /\ pc = "flags"
    /\ QueueIdle
    /\ BcastIdle
    /\ RedIdle
    /\ TypeIdle
    /\ MulIdle

FlagsNext ==
    \/ Get_flags
    \/ Get_c_contiguous
    \/ Get_f_contiguous
    \/ Get_writable
    \/ Get_forc
    \/ Get_fnc
    \/ Get_contiguous
    \/ GetItem
    \/ Repr

FlagsSpec == FlagsInit /\ [][FlagsNext]_vars

(***************************************************************************)
(* C22: Flags.writable                                                     *)
(***************************************************************************)
\* The bit (a power of two) is set in the mask.
BitIsSet(mask, bit) == (mask \div bit) % 2 = 1

\* The lookup returned the Python bool b.
Returned(b) == result = PyBool(b)

\* C22: for every flags bitmask, Flags.writable and Flags["WRITABLE"] are
\* True exactly when the USM_ARRAY_WRITEABLE bit is set in the mask, in the
\* same way that c_contiguous and f_contiguous are True exactly when their
\* bit is set.
C22_WritableIffBitSet ==
    /\ call = <<"writable">> =>
           Returned(BitIsSet(flags_, USM_ARRAY_WRITEABLE))
    /\ call = <<"__getitem__", "WRITABLE">> =>
           Returned(BitIsSet(flags_, USM_ARRAY_WRITEABLE))
    /\ call = <<"c_contiguous">> =>
           Returned(BitIsSet(flags_, USM_ARRAY_C_CONTIGUOUS))
    /\ call = <<"f_contiguous">> =>
           Returned(BitIsSet(flags_, USM_ARRAY_F_CONTIGUOUS))

\* The part of the statement about c_contiguous and f_contiguous, by
\* attribute and by item.
C22_ContiguousIffBitSet ==
    /\ call \in {<<"c_contiguous">>, <<"__getitem__", "C_CONTIGUOUS">>,
                 <<"__getitem__", "C">>} =>
           Returned(BitIsSet(flags_, USM_ARRAY_C_CONTIGUOUS))
    /\ call \in {<<"f_contiguous">>, <<"__getitem__", "F_CONTIGUOUS">>,
                 <<"__getitem__", "F">>} =>
           Returned(BitIsSet(flags_, USM_ARRAY_F_CONTIGUOUS))

\* What the code returns for writable: True exactly when the bit is clear.
C22_WritableIffBitClear ==
    call \in {<<"writable">>, <<"__getitem__", "WRITABLE">>} =>
        Returned(~BitIsSet(flags_, USM_ARRAY_WRITEABLE))

\* writable was read on a mask with only the writable bit set.
C22_WitnessWritableBitSet ==
    /\ flags_ = USM_ARRAY_WRITEABLE
    /\ call = <<"writable">>
    /\ Returned(FALSE)

\* c_contiguous was read on a mask with the C bit and the writable bit set.
C22_WitnessContiguous ==
    /\ flags_ = USM_ARRAY_C_CONTIGUOUS + USM_ARRAY_WRITEABLE
    /\ call = <<"c_contiguous">>
    /\ Returned(TRUE)

=============================================================================
